---- MODULE Spec2Model ----
(***************************************************************************)
(* A model of opencode-commander's `run` command: run() (run.ts), the      *)
(* container lifecycle (container.ts), the agent session client and the    *)
(* event monitor (agent.ts) and the task reference parser (github.ts).     *)
(*                                                                         *)
(* Strings that the code builds by interpolation are tuples of their       *)
(* fixed text and their interpolated values; a task reference is a         *)
(* sequence of one-character strings.  Times are in milliseconds.          *)
(***************************************************************************)
EXTENDS Integers, Sequences, FiniteSets, TLC

VARIABLES
    options,      \* RunOptions handed to run(): taskRef, timeoutMinutes, quiet
    pc,           \* the await at which run() is suspended
    ref,          \* run()'s `ref`: the parsed TaskRef, or NoRef
    issue,        \* run()'s `issue`, or NoIssue
    hostPort,     \* run()'s `hostPort`, or NoPort
    container,    \* run()'s `container`: the Container handle, or NoContainer
    env,          \* the environment inside the container engine
    elapsed,      \* waitForHealthy's Date.now() - startTime
    healthy,      \* whether waitForHealthy has returned normally
    lastAnswer,   \* what the latest health poll brought, or "none"
    createExit,   \* how the `op run -- podman run` invocation ended, or "none"
    portOwner,    \* who has the host port bound: "free", "container", "other"
    logs,         \* the podman logs call of run(): its exit, completion, text
    session,      \* runTask's sessionId, or NoSession
    timer,        \* the setTimeout started by timeout(ms)
    race,         \* how Promise.race([prompt, timeout]) was settled
    agentResult,  \* run()'s `agentResult`, or NoResult
    prUrl,        \* run()'s `prUrl`, or NoUrl
    mon,          \* the background task and AbortController of monitorEvents
    calls,        \* how often each external operation was invoked
    warns,        \* the warnings logged so far
    failedComments, \* the status comments whose posting failed
    destroyed,    \* the handles destroyContainer was invoked with, in order
    branches,     \* the branch name handed to each step that names a branch
    fleet,        \* the runs sharing one container engine, when several are started
    cli,          \* the process started by cli.ts: argv, exit code, stdout, stderr
    result        \* how run() completed: a returned RunResult or a raised Error

vars == << options, pc, ref, issue, hostPort, container, env, elapsed, healthy,
           lastAnswer, createExit, portOwner, logs, session, timer, race, agentResult, prUrl, mon, calls,
           warns, failedComments, destroyed, result, branches, fleet, cli >>

----------------------------------------------------------------------------
(* Bounds and sampled inputs *)

\* The most events the event stream delivers in one run.
MaxEvents == 2

\* Sampled task references: two valid ones, two the pattern rejects, and
\* one that is not owner/repo#N although the pattern matches it.
TaskRefInputs ==
    { << "a", "/", "b", "#", "4", "2" >>,
      << "c", "/", "d", "#", "7" >>,
      << "n", "o", "t", "-", "a", "-", "r", "e", "f" >>,
      << "a", "/", "b", "#" >>,
      << "a", "/", "b", "/", "c", "#", "1" >> }

\* Sampled values of RunOptions.timeoutMinutes.
TimeoutMinuteInputs == { 1, 30 }

\* Ports the OS may hand out, container ids podman may print.
Ports == { 49152 }
ContainerIds == { "0123456789ab" }
SessionIds == { "ses_1" }

\* Latencies of one health poll that answers before its per-call timeout.
ResponseLatenciesMs == { 0, 1000 }

\* How a spawned process ends: exit 0, exit non-zero, or Bun.spawn throwing.
ExecOutcomes == { "ok", "nonzero", "spawnfail" }

----------------------------------------------------------------------------
(* Program constants *)

HealthTimeoutMs == 300000
pollIntervalMs == 3000
PollTimeoutMs == 2000

NoRef == [none |-> "ref"]
NoIssue == [none |-> "issue"]
NoPort == 0
NoContainer == [none |-> "container"]
NoSession == ""
NoResult == [none |-> "agentResult"]
NoUrl == ""
Pending == [kind |-> "pending"]
NoRace == [by |-> "none"]
NoLogs == [exit |-> "none"]

\* An Error (or other thrown value) with its message: fixed text, an
\* interpolated number, an interpolated string.
Err(text, n, detail) == [text |-> text, n |-> n, detail |-> detail]

Returned(value) == [kind |-> "returned", value |-> value]
Raised(err) == [kind |-> "raised", error |-> err]

----------------------------------------------------------------------------
(* github.ts: parseTaskRef *)

Digits == { "0", "1", "2", "3", "4", "5", "6", "7", "8", "9" }

DigitValue(c) ==
    CASE c = "0" -> 0 [] c = "1" -> 1 [] c = "2" -> 2 [] c = "3" -> 3
      [] c = "4" -> 4 [] c = "5" -> 5 [] c = "6" -> 6 [] c = "7" -> 7
      [] c = "8" -> 8 [] c = "9" -> 9

\* The first index i >= from with s[i] = c, or 0.
FirstIndex(s, c, from) ==
    IF \E i \in from..Len(s) : s[i] = c
    THEN CHOOSE i \in from..Len(s) :
            s[i] = c /\ \A j \in from..(i - 1) : s[j] # c
    ELSE 0

\* parseInt(str, 10) of a string of decimal digits.
RECURSIVE parseInt(_)
parseInt(str) ==
    IF str = << >> THEN 0
    ELSE 10 * parseInt(SubSeq(str, 1, Len(str) - 1)) + DigitValue(str[Len(str)])

\* ref.match(/^([^/]+)\/([^#]+)#(\d+)$/): the owner ends before the first
\* "/", the repo before the first "#" after it, the rest is digits.
SlashAt(s) == FirstIndex(s, "/", 1)
HashAt(s) == IF SlashAt(s) = 0 THEN 0 ELSE FirstIndex(s, "#", SlashAt(s) + 1)

RefMatches(s) ==
    /\ SlashAt(s) >= 2
    /\ HashAt(s) >= SlashAt(s) + 2
    /\ HashAt(s) < Len(s)
    /\ \A i \in (HashAt(s) + 1)..Len(s) : s[i] \in Digits

parseTaskRef(s) ==
    IF RefMatches(s)
    THEN [ok |-> TRUE,
          owner |-> SubSeq(s, 1, SlashAt(s) - 1),
          repo |-> SubSeq(s, SlashAt(s) + 1, HashAt(s) - 1),
          issue |-> parseInt(SubSeq(s, HashAt(s) + 1, Len(s)))]
    ELSE [ok |-> FALSE,
          error |-> Err("Invalid task reference", 0, "Expected format: owner/repo#issue")]

\* run.ts: `${ref.owner}/${ref.repo}` and `agent/issue-${ref.issue}`.
FullRepoOf(r) == r.owner \o << "/" >> \o r.repo
BranchOf(r) == [text |-> "agent/issue-", n |-> r.issue]

----------------------------------------------------------------------------
(* Initial state: run(options) has just been called *)

NoCalls ==
    [fetch |-> 0, port |-> 0, create |-> 0, comment |-> 0, monitor |-> 0,
     sessionCreate |-> 0, prompt |-> 0, logs |-> 0, push |-> 0, pr |-> 0,
     stop |-> 0, rm |-> 0]

MonitorIdle == [pc |-> "idle", aborted |-> FALSE, delivered |-> 0, logged |-> 0]

\* Nothing has run yet: every local of run() is unset.
\* No step has been handed a branch name yet.
NoBranch == [text |-> "", n |-> 0]
NoBranches == [checkout |-> NoBranch, prompt |-> NoBranch, push |-> NoBranch,
               head |-> NoBranch]

\* A single run: no other run shares the engine.
NoFleet == << >>

\* run() called as a library function: no command line, no process exit.
NoCli == [stage |-> "none", argv |-> << >>, exitCode |-> -1, stdout |-> << >>,
          stderr |-> << >>]

NothingDone ==
    /\ pc = "start"
    /\ ref = NoRef
    /\ issue = NoIssue
    /\ hostPort = NoPort
    /\ container = NoContainer
    /\ env = "absent"
    /\ elapsed = 0
    /\ healthy = FALSE
    /\ lastAnswer = "none"
    /\ createExit = "none"
    /\ portOwner = "free"
    /\ logs = NoLogs
    /\ session = NoSession
    /\ timer = "unset"
    /\ race = NoRace
    /\ agentResult = NoResult
    /\ prUrl = NoUrl
    /\ mon = MonitorIdle
    /\ calls = NoCalls
    /\ warns = {}
    /\ failedComments = {}
    /\ destroyed = << >>
    /\ branches = NoBranches
    /\ result = Pending

Init ==
    /\ options \in [taskRef : TaskRefInputs,
                    timeoutMinutes : TimeoutMinuteInputs,
                    quiet : BOOLEAN]
    /\ NothingDone
    /\ fleet = NoFleet
    /\ cli = NoCli

Bump(c, op) == [c EXCEPT ![op] = @ + 1]

\* Faulty variant: cleanup sits at the end of the try block, not in a finally block,
\* so a raised error leaves run() without it.
ExitTry_SkipsFinally(r) ==
    /\ result' = r
    /\ pc' = IF r.kind = "raised" THEN "done" ELSE "finally"

\* Faulty variant: the success return leaves run() without the cleanup.
ExitTry_SuccessSkipsFinally(r) ==
    /\ result' = r
    /\ pc' = IF r.kind = "returned" /\ r.value.success THEN "done"
             ELSE "finally"

\* The try block of run() ends with completion `r`: control enters `finally`.
ExitTry(r) == result' = r /\ pc' = "finally"

----------------------------------------------------------------------------
(* run.ts: run(), steps 1-3 (before the try block) *)

\* const ref = parseTaskRef(taskRef): a malformed reference raises out of run().
RunParse ==
    /\ pc = "start"
    /\ LET parsed == parseTaskRef(options.taskRef) IN
         IF parsed.ok
         THEN /\ ref' = [owner |-> parsed.owner, repo |-> parsed.repo,
                         issue |-> parsed.issue]
              /\ pc' = "fetchIssue"
              /\ UNCHANGED result
         ELSE /\ result' = Raised(parsed.error)
              /\ pc' = "done"
              /\ UNCHANGED ref
    /\ UNCHANGED << options, issue, hostPort, container, env, elapsed, healthy,
                    session, timer, agentResult, prUrl, mon, calls, warns,
                    destroyed, race,
                    lastAnswer, failedComments, createExit, portOwner, logs, branches, fleet, cli >>

\* await fetchIssue(ref): gh exits non-zero, cannot be spawned, or prints
\* something JSON.parse rejects; each raises out of run().
FetchOutcomes == ExecOutcomes \cup { "badjson" }

RunFetchIssue ==
    /\ pc = "fetchIssue"
    /\ calls' = Bump(calls, "fetch")
    /\ \E o \in FetchOutcomes :
         IF o = "ok"
         THEN /\ issue' = [title |-> "title", body |-> "body"]
              /\ pc' = "findPort"
              /\ UNCHANGED result
         ELSE /\ result' = Raised(CASE o = "nonzero" -> Err("gh issue view failed", 1, "stderr")
                                     [] o = "spawnfail" -> Err("spawn failed", 0, "gh")
                                     [] o = "badjson" -> Err("JSON Parse error", 0, ""))
              /\ pc' = "done"
              /\ UNCHANGED issue
    /\ UNCHANGED << options, ref, hostPort, container, env, elapsed, healthy,
                    session, timer, agentResult, prUrl, mon, warns,
                    destroyed, race,
                    lastAnswer, failedComments, createExit, portOwner, logs, branches, fleet, cli >>

\* await findAvailablePort(): Bun.serve({ port: 0 }) has the OS assign a free
\* port and server.stop() releases it again before the port is returned; or
\* server.port is undefined.
RunFindPort ==
    /\ pc = "findPort"
    /\ calls' = Bump(calls, "port")
    /\ \/ \E p \in Ports :
            /\ hostPort' = p
            /\ pc' = "create"
            /\ UNCHANGED result
       \/ /\ result' = Raised(Err("Failed to find an available port", 0, ""))
          /\ pc' = "done"
          /\ UNCHANGED hostPort
    /\ UNCHANGED << options, ref, issue, container, env, elapsed, healthy,
                    session, timer, agentResult, prUrl, mon, warns,
                    destroyed, race,
                    lastAnswer, failedComments, createExit, portOwner, logs, branches, fleet, cli >>

----------------------------------------------------------------------------
(* container.ts: createContainer, called at the head of run()'s try block *)

\* What the create command can do: podman cannot publish a host port that
\* another process has bound.
CreateOutcomes(owner) ==
    IF owner = "free" THEN ExecOutcomes ELSE ExecOutcomes \ { "ok" }

\* Faulty variant: the first status comment is posted whatever quiet says.
AfterCreate_AlwaysComments == "commentStart"

\* The next await after createContainer returns: the status comment unless quiet.
AfterCreate == IF options.quiet THEN "health" ELSE "commentStart"

\* Faulty variant: the exit code of the create command is not looked at.
CreateContainer_IgnoresExit ==
    /\ pc = "create"
    /\ calls' = Bump(calls, "create")
    /\ branches' = [branches EXCEPT !.checkout = BranchOf(ref)]
    /\ \E o \in CreateOutcomes(portOwner) :
       /\ createExit' = o
       /\ CASE o = "ok" ->
                  \E id \in ContainerIds :
                    /\ container' = [id |-> id, hostPort |-> hostPort,
                                     repo |-> FullRepoOf(ref), branch |-> BranchOf(ref)]
                    /\ env' = "running"
                    /\ portOwner' = "container"
                    /\ pc' = AfterCreate
                    /\ UNCHANGED result
             [] o = "nonzero" ->
                  /\ container' = [id |-> "", hostPort |-> hostPort,
                                   repo |-> FullRepoOf(ref), branch |-> BranchOf(ref)]
                  /\ pc' = AfterCreate
                  /\ UNCHANGED << result, env, portOwner >>
             [] o = "spawnfail" ->
                  /\ ExitTry(Raised(Err("spawn failed", 0, "op")))
                  /\ UNCHANGED << container, env, portOwner >>
    /\ UNCHANGED << options, ref, issue, hostPort, elapsed, healthy, session,
                    timer, agentResult, prUrl, mon, warns,
                    destroyed, race,
                    lastAnswer, failedComments, logs, fleet, cli >>

\* const result = await exec(createCmd): throw on a non-zero exit, else return
\* the handle { id: stdout.slice(0, 12), hostPort, repo, branch }.
CreateContainer ==
    /\ pc = "create"
    /\ calls' = Bump(calls, "create")
    /\ branches' = [branches EXCEPT !.checkout = BranchOf(ref)]
    /\ \E o \in CreateOutcomes(portOwner) :
       /\ createExit' = o
       /\ CASE o = "ok" ->
                  \E id \in ContainerIds :
                    /\ container' = [id |-> id, hostPort |-> hostPort,
                                     repo |-> FullRepoOf(ref), branch |-> BranchOf(ref)]
                    /\ env' = "running"
                    /\ portOwner' = "container"
                    /\ pc' = AfterCreate
                    /\ UNCHANGED result
             [] o = "nonzero" ->
                  /\ ExitTry(Raised(Err("Failed to create container", 125, "stderr")))
                  /\ UNCHANGED << container, env, portOwner >>
             [] o = "spawnfail" ->
                  /\ ExitTry(Raised(Err("spawn failed", 0, "op")))
                  /\ UNCHANGED << container, env, portOwner >>
    /\ UNCHANGED << options, ref, issue, hostPort, elapsed, healthy, session,
                    timer, agentResult, prUrl, mon, warns,
                    destroyed, race,
                    lastAnswer, failedComments, logs, fleet, cli >>

\* await commentOnIssue(...).catch(log.warn): the "working on it" comment.
CommentStart ==
    /\ pc = "commentStart"
    /\ calls' = Bump(calls, "comment")
    /\ \E o \in ExecOutcomes :
         /\ warns' = IF o = "ok" THEN warns
                     ELSE warns \cup { "Failed to post status comment" }
         /\ failedComments' = IF o = "ok" THEN failedComments
                              ELSE failedComments \cup { "start" }
    /\ pc' = "health"
    /\ UNCHANGED << options, ref, issue, hostPort, container, env, elapsed,
                    healthy, session, timer, agentResult, prUrl, mon, result,
                    destroyed, race,
                    lastAnswer, createExit, portOwner, logs, branches, fleet, cli >>

----------------------------------------------------------------------------
(* container.ts: waitForHealthy(container), with the default timeoutMs *)

\* What one poll of /global/health brings: a 2xx body with healthy true or
\* false, a non-2xx status, a body response.json() rejects, a network error.
PollAnswers == { "healthy", "unhealthy", "non2xx", "malformed", "neterror" }

\* Faulty variant: any 2xx response ends the wait, whatever its body says.
Ready_AnyOk(a) == a \in { "healthy", "unhealthy" }

\* if (response.ok) { data = await response.json(); if (data.healthy) return }
Ready(a) == a = "healthy"

\* Faulty variant: the loop still polls when the deadline has just elapsed.
WithinDeadline_Inclusive == elapsed <= HealthTimeoutMs

\* The loop condition: Date.now() - startTime < timeoutMs
WithinDeadline == elapsed < HealthTimeoutMs

\* Faulty variant: a network error escapes the loop instead of being caught.
HealthPoll_NetErrorThrows ==
    /\ pc = "health"
    /\ WithinDeadline
    /\ \/ \E a \in PollAnswers, d \in ResponseLatenciesMs :
            /\ lastAnswer' = a
            /\ IF Ready(a)
               THEN /\ healthy' = TRUE
                    /\ pc' = "monitor"
                    /\ elapsed' = 0
                    /\ UNCHANGED result
               ELSE IF a = "neterror"
               THEN /\ ExitTry(Raised(Err("Unable to connect", 0, "")))
                    /\ elapsed' = 0
                    /\ UNCHANGED healthy
               ELSE /\ pc' = "healthSleep"
                    /\ elapsed' = elapsed + d
                    /\ UNCHANGED << healthy, result >>
       \/ /\ lastAnswer' = "polltimeout"
          /\ elapsed' = elapsed + PollTimeoutMs
          /\ pc' = "healthSleep"
          /\ UNCHANGED << healthy, result >>
    /\ UNCHANGED << options, ref, issue, hostPort, container, env, session,
                    timer, agentResult, prUrl, mon, calls, warns,
                    destroyed, race, failedComments, createExit, portOwner, logs, branches, fleet, cli >>

\* Faulty variant: fetch has no abort signal, so an unanswered poll never ends.
HealthPoll_NoPollTimeout ==
    /\ pc = "health"
    /\ WithinDeadline
    /\ \/ \E a \in PollAnswers, d \in ResponseLatenciesMs :
            /\ lastAnswer' = a
            /\ IF Ready(a)
               THEN /\ healthy' = TRUE
                    /\ pc' = "monitor"
                    /\ elapsed' = 0
               ELSE /\ pc' = "healthSleep"
                    /\ elapsed' = elapsed + d
                    /\ UNCHANGED healthy
       \/ /\ lastAnswer' = "polltimeout"
          /\ pc' = "hung"
          /\ UNCHANGED << healthy, elapsed >>
    /\ UNCHANGED << options, ref, issue, hostPort, container, env, session,
                    timer, agentResult, prUrl, mon, calls, warns, result,
                    destroyed, race, failedComments, createExit, portOwner, logs, branches, fleet, cli >>

\* while (Date.now() - startTime < timeoutMs) { try { fetch ... } catch {} }:
\* one poll that answers after latency d, or is aborted by
\* AbortSignal.timeout(2_000); whatever is not ready falls to the sleep.
HealthPoll ==
    /\ pc = "health"
    /\ WithinDeadline
    /\ \/ \E a \in PollAnswers, d \in ResponseLatenciesMs :
            /\ lastAnswer' = a
            /\ IF Ready(a)
               THEN /\ healthy' = TRUE
                    /\ pc' = "monitor"
                    /\ elapsed' = 0
               ELSE /\ pc' = "healthSleep"
                    /\ elapsed' = elapsed + d
                    /\ UNCHANGED healthy
       \/ /\ lastAnswer' = "polltimeout"
          /\ elapsed' = elapsed + PollTimeoutMs
          /\ pc' = "healthSleep"
          /\ UNCHANGED healthy
    /\ UNCHANGED << options, ref, issue, hostPort, container, env, session,
                    timer, agentResult, prUrl, mon, calls, warns, result,
                    destroyed, race, failedComments, createExit, portOwner, logs, branches, fleet, cli >>

\* await Bun.sleep(pollIntervalMs)
HealthSleep ==
    /\ pc = "healthSleep"
    /\ elapsed' = elapsed + pollIntervalMs
    /\ pc' = "health"
    /\ UNCHANGED << options, ref, issue, hostPort, container, env, healthy,
                    session, timer, agentResult, prUrl, mon, calls, warns, result,
                    destroyed, race,
                    lastAnswer, failedComments, createExit, portOwner, logs, branches, fleet, cli >>

\* Faulty variant: the health wait also tears the environment down when it gives up.
HealthTimeout_DestroysToo ==
    /\ pc = "health"
    /\ elapsed >= HealthTimeoutMs
    /\ ExitTry(Raised(Err("Timed out waiting for opencode server", HealthTimeoutMs,
                          container.id)))
    /\ elapsed' = 0
    /\ destroyed' = Append(destroyed, container)
    /\ UNCHANGED << options, ref, issue, hostPort, container, env, healthy,
                    session, timer, agentResult, prUrl, mon, calls, warns, race,
                    lastAnswer, failedComments, createExit, portOwner, logs, branches, fleet, cli >>

\* Faulty variant: the loop falls through at the deadline instead of throwing.
HealthTimeout_Returns ==
    /\ pc = "health"
    /\ elapsed >= HealthTimeoutMs
    /\ pc' = "monitor"
    /\ elapsed' = 0
    /\ UNCHANGED << options, ref, issue, hostPort, container, env, healthy,
                    session, timer, agentResult, prUrl, mon, calls, warns,
                    destroyed, race, result,
                    lastAnswer, failedComments, createExit, portOwner, logs, branches, fleet, cli >>

\* Faulty variant: the deadline ends run() at once, skipping the finally block.
HealthTimeout_SkipsTeardown ==
    /\ pc = "health"
    /\ elapsed >= HealthTimeoutMs
    /\ result' = Raised(Err("Timed out waiting for opencode server", HealthTimeoutMs,
                            container.id))
    /\ pc' = "done"
    /\ elapsed' = 0
    /\ UNCHANGED << options, ref, issue, hostPort, container, env,
                    healthy, session, timer, agentResult, prUrl, mon, calls, warns,
                    destroyed, race,
                    lastAnswer, failedComments, createExit, portOwner, logs, branches, fleet, cli >>

\* The loop condition fails: throw new Error("Timed out waiting for ...").
HealthTimeout ==
    /\ pc = "health"
    /\ elapsed >= HealthTimeoutMs
    /\ ExitTry(Raised(Err("Timed out waiting for opencode server", HealthTimeoutMs,
                          container.id)))
    /\ elapsed' = 0
    /\ UNCHANGED << options, ref, issue, hostPort, container, env,
                    healthy, session, timer, agentResult, prUrl, mon, calls, warns,
                    destroyed, race,
                    lastAnswer, failedComments, createExit, portOwner, logs, branches, fleet, cli >>

----------------------------------------------------------------------------
(* agent.ts: monitorEvents(container), the background event monitor *)

\* const eventMonitor = monitorEvents(container): the background task runs
\* up to its first await, client.event.subscribe().
RunStartMonitor ==
    /\ pc = "monitor"
    /\ mon' = [mon EXCEPT !.pc = "subscribing"]
    /\ calls' = Bump(calls, "monitor")
    /\ pc' = "runTask"
    /\ UNCHANGED << options, ref, issue, hostPort, container, env, elapsed,
                    healthy, session, timer, agentResult, prUrl, warns, result,
                    destroyed, race,
                    lastAnswer, failedComments, createExit, portOwner, logs, branches, fleet, cli >>

\* catch (err) { if (!controller.signal.aborted) log.warn(...) }
\* Faulty variant: the catch block warns whether or not abort was called.
MonitorCatch_AlwaysWarns ==
    /\ mon' = [mon EXCEPT !.pc = "stopped"]
    /\ warns' = warns \cup { "Event monitoring stopped" }

MonitorCatch ==
    /\ mon' = [mon EXCEPT !.pc = "stopped"]
    /\ warns' = IF mon.aborted THEN warns
                ELSE warns \cup { "Event monitoring stopped" }

MonSubscribed ==
    /\ mon.pc = "subscribing"
    /\ mon' = [mon EXCEPT !.pc = "streaming"]
    /\ UNCHANGED << options, pc, ref, issue, hostPort, container, env, elapsed,
                    healthy, session, timer, agentResult, prUrl, calls, warns,
                    result,
                    destroyed, race,
                    lastAnswer, failedComments, createExit, portOwner, logs, branches, fleet, cli >>

MonSubscribeRejects ==
    /\ mon.pc = "subscribing"
    /\ MonitorCatch
    /\ UNCHANGED << options, pc, ref, issue, hostPort, container, env, elapsed,
                    healthy, session, timer, agentResult, prUrl, calls, result,
                    destroyed, race,
                    lastAnswer, failedComments, createExit, portOwner, logs, branches, fleet, cli >>

\* Faulty variant: events are logged without a look at the abort signal.
MonEvent_IgnoresAbort ==
    /\ mon.pc = "streaming"
    /\ mon.delivered < MaxEvents
    /\ mon' = [mon EXCEPT !.delivered = @ + 1, !.logged = @ + 1]
    /\ UNCHANGED << options, pc, ref, issue, hostPort, container, env, elapsed,
                    healthy, session, timer, agentResult, prUrl, calls, warns,
                    result,
                    destroyed, race,
                    lastAnswer, failedComments, createExit, portOwner, logs, branches, fleet, cli >>

\* for await (const event of events.stream): break when aborted, else log.debug.
MonEvent ==
    /\ mon.pc = "streaming"
    /\ mon.delivered < MaxEvents
    /\ mon' = IF mon.aborted
              THEN [mon EXCEPT !.pc = "stopped", !.delivered = @ + 1]
              ELSE [mon EXCEPT !.delivered = @ + 1, !.logged = @ + 1]
    /\ UNCHANGED << options, pc, ref, issue, hostPort, container, env, elapsed,
                    healthy, session, timer, agentResult, prUrl, calls, warns,
                    result,
                    destroyed, race,
                    lastAnswer, failedComments, createExit, portOwner, logs, branches, fleet, cli >>

\* Faulty variant: a stream error is not caught and ends the run as an
\* unhandled rejection.
MonStreamError_Unhandled ==
    /\ mon.pc = "streaming"
    /\ mon' = [mon EXCEPT !.pc = "stopped"]
    /\ result' = IF pc = "done" THEN result
                 ELSE Raised(Err("Unhandled rejection", 0, "event stream"))
    /\ pc' = "done"
    /\ UNCHANGED << options, ref, issue, hostPort, container, env, elapsed,
                    healthy, session, timer, agentResult, prUrl, calls, warns,
                    destroyed, race, lastAnswer, failedComments, createExit, portOwner, logs, branches, fleet, cli >>

\* The stream throws: the catch block logs a warning unless aborted.
MonStreamError ==
    /\ mon.pc = "streaming"
    /\ MonitorCatch
    /\ UNCHANGED << options, pc, ref, issue, hostPort, container, env, elapsed,
                    healthy, session, timer, agentResult, prUrl, calls, result,
                    destroyed, race,
                    lastAnswer, failedComments, createExit, portOwner, logs, branches, fleet, cli >>

MonStreamEnd ==
    /\ mon.pc = "streaming"
    /\ mon' = [mon EXCEPT !.pc = "stopped"]
    /\ UNCHANGED << options, pc, ref, issue, hostPort, container, env, elapsed,
                    healthy, session, timer, agentResult, prUrl, calls, warns,
                    result,
                    destroyed, race,
                    lastAnswer, failedComments, createExit, portOwner, logs, branches, fleet, cli >>

----------------------------------------------------------------------------
(* agent.ts: runTask(container, prompt, {timeoutMs}) *)

\* timeoutMs: timeoutMinutes * 60 * 1000
TimeoutMs == options.timeoutMinutes * 60 * 1000

\* What client.session.prompt may reject with: an Error, or another value.
Rejections ==
    { [isError |-> TRUE, message |-> "socket hang up"],
      [isError |-> FALSE, message |-> "boom"] }

\* err instanceof Error ? err.message : String(err)
ErrorMsg(err) == Err(err.message, 0, "")

\* await client.session.create(...): the request is sent.
RunTaskCreateSession ==
    /\ pc = "runTask"
    /\ calls' = Bump(calls, "sessionCreate")
    /\ pc' = "sessionCreate"
    /\ UNCHANGED << options, ref, issue, hostPort, container, env, elapsed,
                    healthy, session, timer, agentResult, prUrl, mon, warns,
                    result,
                    destroyed, race,
                    lastAnswer, failedComments, createExit, portOwner, logs, branches, fleet, cli >>

\* The request settles.  With data, the prompt is sent and raced against
\* timeout(timeoutMs); without data or on rejection runTask raises, and so
\* does run()'s try block.
RunTaskSessionSettled ==
    /\ pc = "sessionCreate"
    /\ \/ \E id \in SessionIds :
            /\ session' = id
            /\ calls' = Bump(calls, "prompt")
            /\ branches' = [branches EXCEPT !.prompt = BranchOf(ref)]
            /\ timer' = "pending"
            /\ race' = [by |-> "open"]
            /\ pc' = "race"
            /\ UNCHANGED result
       \/ /\ ExitTry(Raised(Err("Failed to create session: no data returned", 0, "")))
          /\ UNCHANGED << session, calls, timer, race, branches >>
       \/ \E err \in Rejections :
            /\ ExitTry(Raised(ErrorMsg(err)))
            /\ UNCHANGED << session, calls, timer, race, branches >>
    /\ UNCHANGED << options, ref, issue, hostPort, container, env, elapsed,
                    healthy, agentResult, prUrl, mon, warns,
                    destroyed,
                    lastAnswer, failedComments, createExit, portOwner, logs, fleet, cli >>

\* if (!result) return { success: false, summary: "Agent timed out", ... }
TimedOutResult ==
    [success |-> FALSE, sessionId |-> session, summary |-> "Agent timed out",
     error |-> Err("Task did not complete within", (TimeoutMs \div 1000) \div 60,
                   "minutes")]

SuccessResult ==
    [success |-> TRUE, sessionId |-> session,
     summary |-> "Task completed successfully"]

\* Faulty variant: the catch block reports a fixed text instead of the error's message.
FailedResult_Generic(err) ==
    [success |-> FALSE, sessionId |-> session, summary |-> "Agent failed",
     error |-> Err("Agent failed", 0, "")]

\* catch (err) { return { success: false, summary: "Agent failed", ... } }
FailedResult(err) ==
    [success |-> FALSE, sessionId |-> session, summary |-> "Agent failed",
     error |-> err]

\* The prompt call resolves first, with a truthy or a falsy value.
PromptResolves ==
    /\ pc = "race"
    /\ \E truthy \in BOOLEAN :
         /\ race' = [by |-> "resolved", truthy |-> truthy]
         /\ agentResult' = IF truthy THEN SuccessResult ELSE TimedOutResult
    /\ pc' = "afterRunTask"
    /\ UNCHANGED << options, ref, issue, hostPort, container, env, elapsed,
                    healthy, session, timer, prUrl, mon, calls, warns, result,
                    destroyed,
                    lastAnswer, failedComments, createExit, portOwner, logs, branches, fleet, cli >>

\* Faulty variant: a rejected prompt is submitted once more before giving up.
PromptRejects_Retries ==
    /\ pc = "race"
    /\ IF calls.prompt < 2
       THEN /\ calls' = Bump(calls, "prompt")
            /\ UNCHANGED << race, agentResult, pc >>
       ELSE /\ \E err \in Rejections :
                 /\ race' = [by |-> "rejected", err |-> err]
                 /\ agentResult' = FailedResult(ErrorMsg(err))
            /\ pc' = "afterRunTask"
            /\ UNCHANGED calls
    /\ UNCHANGED << options, ref, issue, hostPort, container, env, elapsed,
                    healthy, session, timer, prUrl, mon, warns, result,
                    destroyed, lastAnswer, failedComments, createExit, portOwner, logs, branches, fleet, cli >>

\* The prompt call rejects first.
PromptRejects ==
    /\ pc = "race"
    /\ \E err \in Rejections :
         /\ race' = [by |-> "rejected", err |-> err]
         /\ agentResult' = FailedResult(ErrorMsg(err))
    /\ pc' = "afterRunTask"
    /\ UNCHANGED << options, ref, issue, hostPort, container, env, elapsed,
                    healthy, session, timer, prUrl, mon, calls, warns, result,
                    destroyed,
                    lastAnswer, failedComments, createExit, portOwner, logs, branches, fleet, cli >>

\* setTimeout(() => reject(new Error(`Timed out after ${ms}ms`)), ms) fires:
\* while the race is open it rejects the race; later it changes nothing.
TimerFires ==
    /\ timer = "pending"
    /\ timer' = "fired"
    /\ IF pc = "race"
       THEN /\ race' = [by |-> "timer"]
            /\ agentResult' = FailedResult(Err("Timed out after", TimeoutMs, "ms"))
            /\ pc' = "afterRunTask"
       ELSE UNCHANGED << race, agentResult, pc >>
    /\ UNCHANGED << options, ref, issue, hostPort, container, env, elapsed,
                    healthy, session, prUrl, mon, calls, warns, result,
                    destroyed,
                    lastAnswer, failedComments, createExit, portOwner, logs, branches, fleet, cli >>

----------------------------------------------------------------------------
(* run.ts: run(), after runTask has returned *)

\* Faulty variant: the branch is published whatever the agent result says.
RunAbortMonitor_AlwaysPush ==
    /\ pc = "afterRunTask"
    /\ mon' = [mon EXCEPT !.aborted = TRUE]
    /\ pc' = "push"
    /\ UNCHANGED << options, ref, issue, hostPort, container, env, elapsed,
                    healthy, session, timer, agentResult, prUrl, calls, warns,
                    result,
                    destroyed, race,
                    lastAnswer, failedComments, createExit, portOwner, logs, branches, fleet, cli >>

\* Faulty variant: the container logs are fetched whatever the agent result says.
RunAbortMonitor_AlwaysLogs ==
    /\ pc = "afterRunTask"
    /\ mon' = [mon EXCEPT !.aborted = TRUE]
    /\ pc' = "getLogs"
    /\ UNCHANGED << options, ref, issue, hostPort, container, env, elapsed,
                    healthy, session, timer, agentResult, prUrl, calls, warns,
                    result,
                    destroyed, race,
                    lastAnswer, failedComments, createExit, portOwner, logs, branches, fleet, cli >>

\* eventMonitor.abort(); then the branch on agentResult.success.
RunAbortMonitor ==
    /\ pc = "afterRunTask"
    /\ mon' = [mon EXCEPT !.aborted = TRUE]
    /\ pc' = IF agentResult.success THEN "push" ELSE "getLogs"
    /\ UNCHANGED << options, ref, issue, hostPort, container, env, elapsed,
                    healthy, session, timer, agentResult, prUrl, calls, warns,
                    result,
                    destroyed, race,
                    lastAnswer, failedComments, createExit, portOwner, logs, branches, fleet, cli >>

\* Faulty variant: the failure result carries no error message.
AgentFailure_NoError == Returned([success |-> FALSE])

\* return { success: false, error: agentResult.error ?? "Agent failed" }
AgentFailure ==
    Returned([success |-> FALSE,
              error |-> IF "error" \in DOMAIN agentResult
                        THEN agentResult.error
                        ELSE Err("Agent failed", 0, "")])

\* container.ts getContainerLogs: exec(["podman", "logs", ...]) and then
\* `return result.stdout || result.stderr`, with no look at the exit code; a
\* command that cannot be spawned makes exec, and so the function, reject.
getContainerLogs(o) ==
    CASE o = "ok" -> Returned("stdout")
      [] o = "nonzero" -> Returned("stderr")
      [] o = "spawnfail" -> Raised(Err("spawn failed", 0, "podman"))

\* run.ts: getContainerLogs(container.id).catch(() => "(logs unavailable)")
LogsOrPlaceholder(r) ==
    IF r.kind = "raised" THEN "(logs unavailable)" ELSE r.value

\* Faulty variant: on agent failure the environment is torn down as soon as its logs
\* are read, before the failure is reported.
RunGetLogs_DestroysFirst ==
    /\ pc = "getLogs"
    /\ calls' = Bump(Bump(Bump(calls, "logs"), "stop"), "rm")
    /\ destroyed' = Append(destroyed, container)
    /\ \E o \in ExecOutcomes :
         logs' = [exit |-> o, ret |-> getContainerLogs(o),
                  text |-> LogsOrPlaceholder(getContainerLogs(o))]
    /\ IF options.quiet
       THEN ExitTry(AgentFailure)
       ELSE pc' = "commentFailure" /\ UNCHANGED result
    /\ UNCHANGED << options, ref, issue, hostPort, container, env, elapsed,
                    healthy, session, timer, agentResult, prUrl, mon, warns,
                    race,
                    lastAnswer, failedComments, createExit, portOwner, branches, fleet, cli >>

\* await getContainerLogs(container.id).catch(() => "(logs unavailable)"):
\* whatever podman logs does, run() goes on.
RunGetLogs ==
    /\ pc = "getLogs"
    /\ calls' = Bump(calls, "logs")
    /\ \E o \in ExecOutcomes :
         logs' = [exit |-> o, ret |-> getContainerLogs(o),
                  text |-> LogsOrPlaceholder(getContainerLogs(o))]
    /\ IF options.quiet
       THEN ExitTry(AgentFailure)
       ELSE pc' = "commentFailure" /\ UNCHANGED result
    /\ UNCHANGED << options, ref, issue, hostPort, container, env, elapsed,
                    healthy, session, timer, agentResult, prUrl, mon, warns,
                    destroyed, race,
                    lastAnswer, failedComments, createExit, portOwner, branches, fleet, cli >>

\* await commentOnIssue(... failed ...).catch(() => {})
CommentFailure ==
    /\ pc = "commentFailure"
    /\ calls' = Bump(calls, "comment")
    /\ \E o \in ExecOutcomes :
         failedComments' = IF o = "ok" THEN failedComments
                           ELSE failedComments \cup { "failure" }
    /\ ExitTry(AgentFailure)
    /\ UNCHANGED << options, ref, issue, hostPort, container, env, elapsed,
                    healthy, session, timer, agentResult, prUrl, mon, warns,
                    destroyed, race,
                    lastAnswer, createExit, portOwner, logs, branches, fleet, cli >>

\* Faulty variant: success is returned right after the push, with no pull request.
PushBranch_ReturnsAtOnce ==
    /\ pc = "push"
    /\ calls' = Bump(calls, "push")
    /\ branches' = [branches EXCEPT !.push = BranchOf(ref)]
    /\ \E o \in ExecOutcomes :
         CASE o = "ok" -> ExitTry(Returned([success |-> TRUE, prUrl |-> NoUrl]))
           [] o = "nonzero" ->
                ExitTry(Returned([success |-> FALSE,
                                  error |-> Err("Failed to push branch", 0, "stderr")]))
           [] o = "spawnfail" -> ExitTry(Raised(Err("spawn failed", 0, "podman")))
    /\ UNCHANGED << options, ref, issue, hostPort, container, env, elapsed,
                    healthy, session, timer, agentResult, prUrl, mon, warns,
                    destroyed, race,
                    lastAnswer, failedComments, createExit, portOwner, logs, fleet, cli >>

\* await pushBranchFromContainer(container, branch): podman exec ... git push.
PushBranch ==
    /\ pc = "push"
    /\ calls' = Bump(calls, "push")
    /\ branches' = [branches EXCEPT !.push = BranchOf(ref)]
    /\ \E o \in ExecOutcomes :
         CASE o = "ok" -> pc' = "createPR" /\ UNCHANGED result
           [] o = "nonzero" ->
                ExitTry(Returned([success |-> FALSE,
                                  error |-> Err("Failed to push branch", 0, "stderr")]))
           [] o = "spawnfail" -> ExitTry(Raised(Err("spawn failed", 0, "podman")))
    /\ UNCHANGED << options, ref, issue, hostPort, container, env, elapsed,
                    healthy, session, timer, agentResult, prUrl, mon, warns,
                    destroyed, race,
                    lastAnswer, failedComments, createExit, portOwner, logs, fleet, cli >>

PrUrls == { "https://github.com/a/b/pull/1" }

\* return { success: true, prUrl }
Success(url) == Returned([success |-> TRUE, prUrl |-> url])

\* Faulty variant: the pull request is opened from issue-N, not agent/issue-N.
CreatePullRequest_HeadWithoutPrefix ==
    /\ pc = "createPR"
    /\ calls' = Bump(calls, "pr")
    /\ branches' = [branches EXCEPT !.head = [text |-> "issue-", n |-> ref.issue]]
    /\ \E o \in ExecOutcomes :
         CASE o = "ok" ->
                \E url \in PrUrls :
                  /\ prUrl' = url
                  /\ IF options.quiet
                     THEN ExitTry(Success(url))
                     ELSE pc' = "commentSuccess" /\ UNCHANGED result
           [] o = "nonzero" ->
                /\ ExitTry(Raised(Err("gh pr create failed", 1, "stderr")))
                /\ UNCHANGED prUrl
           [] o = "spawnfail" ->
                /\ ExitTry(Raised(Err("spawn failed", 0, "gh")))
                /\ UNCHANGED prUrl
    /\ UNCHANGED << options, ref, issue, hostPort, container, env, elapsed,
                    healthy, session, timer, agentResult, mon, warns,
                    destroyed, race,
                    lastAnswer, failedComments, createExit, portOwner, logs, fleet, cli >>

\* const prUrl = await createPullRequest(...): gh pr create.
CreatePullRequest ==
    /\ pc = "createPR"
    /\ calls' = Bump(calls, "pr")
    /\ branches' = [branches EXCEPT !.head = BranchOf(ref)]
    /\ \E o \in ExecOutcomes :
         CASE o = "ok" ->
                \E url \in PrUrls :
                  /\ prUrl' = url
                  /\ IF options.quiet
                     THEN ExitTry(Success(url))
                     ELSE pc' = "commentSuccess" /\ UNCHANGED result
           [] o = "nonzero" ->
                /\ ExitTry(Raised(Err("gh pr create failed", 1, "stderr")))
                /\ UNCHANGED prUrl
           [] o = "spawnfail" ->
                /\ ExitTry(Raised(Err("spawn failed", 0, "gh")))
                /\ UNCHANGED prUrl
    /\ UNCHANGED << options, ref, issue, hostPort, container, env, elapsed,
                    healthy, session, timer, agentResult, mon, warns,
                    destroyed, race,
                    lastAnswer, failedComments, createExit, portOwner, logs, fleet, cli >>

\* Faulty variant: the success comment is posted without the .catch.
CommentSuccess_Unhandled ==
    /\ pc = "commentSuccess"
    /\ calls' = Bump(calls, "comment")
    /\ \E o \in ExecOutcomes :
         IF o = "ok"
         THEN UNCHANGED failedComments /\ ExitTry(Success(prUrl))
         ELSE /\ failedComments' = failedComments \cup { "success" }
              /\ ExitTry(Raised(Err("gh issue comment failed", 1, "stderr")))
    /\ UNCHANGED << options, ref, issue, hostPort, container, env, elapsed,
                    healthy, session, timer, agentResult, prUrl, mon, warns,
                    destroyed, race,
                    lastAnswer, createExit, portOwner, logs, branches, fleet, cli >>

\* await commentOnIssue(... created a PR ...).catch(() => {})
CommentSuccess ==
    /\ pc = "commentSuccess"
    /\ calls' = Bump(calls, "comment")
    /\ \E o \in ExecOutcomes :
         failedComments' = IF o = "ok" THEN failedComments
                           ELSE failedComments \cup { "success" }
    /\ ExitTry(Success(prUrl))
    /\ UNCHANGED << options, ref, issue, hostPort, container, env, elapsed,
                    healthy, session, timer, agentResult, prUrl, mon, warns,
                    destroyed, race,
                    lastAnswer, createExit, portOwner, logs, branches, fleet, cli >>

----------------------------------------------------------------------------
(* run.ts: the finally block, and container.ts: destroyContainer *)

\* Faulty variant: the finally block lacks the `if (container)` guard.
FinallyNoContainer_DestroysAnyway ==
    /\ pc = "finally"
    /\ container = NoContainer
    /\ destroyed' = Append(destroyed, container)
    /\ pc' = "done"
    /\ UNCHANGED << options, ref, issue, hostPort, container, env, elapsed,
                    healthy, session, timer, agentResult, prUrl, mon, calls,
                    warns, race, result,
                    lastAnswer, failedComments, createExit, portOwner, logs, branches, fleet, cli >>

\* if (container) is false: createContainer raised, nothing to clean up.
FinallyNoContainer ==
    /\ pc = "finally"
    /\ container = NoContainer
    /\ pc' = "done"
    /\ UNCHANGED << options, ref, issue, hostPort, container, env, elapsed,
                    healthy, session, timer, agentResult, prUrl, mon, calls,
                    warns, result,
                    destroyed, race,
                    lastAnswer, failedComments, createExit, portOwner, logs, branches, fleet, cli >>

\* A stopped or removed container no longer holds its published port.
Released(owner) == IF owner = "container" THEN "free" ELSE owner

\* What podman stop can do: it cannot succeed on a container that is gone.
StopOutcomes(e) == IF e = "removed" THEN ExecOutcomes \ { "ok" } ELSE ExecOutcomes

\* Faulty variant: destroyContainer is awaited without the .catch.
DestroyStop_Unhandled ==
    /\ pc = "finally"
    /\ container # NoContainer
    /\ destroyed' = Append(destroyed, container)
    /\ calls' = Bump(calls, "stop")
    /\ \E o \in StopOutcomes(env) :
         CASE o = "ok" ->
                /\ env' = IF env = "running" THEN "stopped" ELSE env
                /\ portOwner' = Released(portOwner)
                /\ pc' = "destroyRm"
                /\ UNCHANGED << warns, result >>
           [] o = "nonzero" ->
                /\ warns' = warns \cup { "Failed to stop container" }
                /\ pc' = "destroyRm"
                /\ UNCHANGED << env, result, portOwner >>
           [] o = "spawnfail" ->
                /\ result' = Raised(Err("spawn failed", 0, "podman"))
                /\ pc' = "done"
                /\ UNCHANGED << env, warns, portOwner >>
    /\ UNCHANGED << options, ref, issue, hostPort, container, elapsed, healthy,
                    session, timer, agentResult, prUrl, mon,
                    race,
                    lastAnswer, failedComments, createExit, logs, branches, fleet, cli >>

\* await destroyContainer(container).catch(log.warn), up to the end of
\* podman stop --time 10 <id>.  A spawn failure rejects destroyContainer; the
\* .catch in run() logs it.
DestroyStop ==
    /\ pc = "finally"
    /\ container # NoContainer
    /\ destroyed' = Append(destroyed, container)
    /\ calls' = Bump(calls, "stop")
    /\ \E o \in StopOutcomes(env) :
         CASE o = "ok" ->
                /\ env' = IF env = "running" THEN "stopped" ELSE env
                /\ portOwner' = Released(portOwner)
                /\ pc' = "destroyRm"
                /\ UNCHANGED warns
           [] o = "nonzero" ->
                /\ warns' = warns \cup { "Failed to stop container" }
                /\ pc' = "destroyRm"
                /\ UNCHANGED << env, portOwner >>
           [] o = "spawnfail" ->
                /\ warns' = warns \cup { "Failed to destroy container" }
                /\ pc' = "done"
                /\ UNCHANGED << env, portOwner >>
    /\ UNCHANGED << options, ref, issue, hostPort, container, elapsed, healthy,
                    session, timer, agentResult, prUrl, mon, result,
                    race,
                    lastAnswer, failedComments, createExit, logs, branches, fleet, cli >>

\* podman rm --force <id>, then run() completes with the try block's completion.
DestroyRm ==
    /\ pc = "destroyRm"
    /\ calls' = Bump(calls, "rm")
    /\ \E o \in ExecOutcomes :
         CASE o = "ok" ->
                /\ env' = "removed"
                /\ portOwner' = Released(portOwner)
                /\ UNCHANGED warns
           [] o = "nonzero" ->
                /\ warns' = warns \cup { "Failed to remove container" }
                /\ UNCHANGED << env, portOwner >>
           [] o = "spawnfail" ->
                /\ warns' = warns \cup { "Failed to destroy container" }
                /\ UNCHANGED << env, portOwner >>
    /\ pc' = "done"
    /\ UNCHANGED << options, ref, issue, hostPort, container, elapsed, healthy,
                    session, timer, agentResult, prUrl, mon, result,
                    destroyed, race,
                    lastAnswer, failedComments, createExit, logs, branches, fleet, cli >>

----------------------------------------------------------------------------
(* The program *)

Next ==
    \/ RunParse
    \/ RunFetchIssue
    \/ RunFindPort
    \/ CreateContainer
    \/ CommentStart
    \/ HealthPoll
    \/ HealthSleep
    \/ HealthTimeout
    \/ RunStartMonitor
    \/ MonSubscribed
    \/ MonSubscribeRejects
    \/ MonEvent
    \/ MonStreamError
    \/ MonStreamEnd
    \/ RunTaskCreateSession
    \/ RunTaskSessionSettled
    \/ PromptResolves
    \/ PromptRejects
    \/ TimerFires
    \/ RunAbortMonitor
    \/ RunGetLogs
    \/ CommentFailure
    \/ PushBranch
    \/ CreatePullRequest
    \/ CommentSuccess
    \/ FinallyNoContainer
    \/ DestroyStop
    \/ DestroyRm

Spec == Init /\ [][Next]_vars

----------------------------------------------------------------------------
(* Properties *)

\* run() has completed: it has returned a RunResult or raised an Error.
Done == pc = "done"

\* C1: once createContainer has returned a handle, destroyContainer is
\* invoked on that handle exactly once on every exit path of run(): never
\* twice, never on another handle, and once by the time run() completes.
C1_DestroyOnceOnHandle ==
    /\ Len(destroyed) <= 1
    /\ destroyed # << >> => container # NoContainer /\ destroyed[1] = container
    /\ (Done /\ container # NoContainer) => Len(destroyed) = 1

\* A run whose pull-request creation raised has destroyed its container once.
C1_Witness ==
    /\ Done
    /\ result.kind = "raised"
    /\ result.error.text = "gh pr create failed"
    /\ destroyed = << container >>

\* The environment exists in the container engine (createContainer's podman
\* run succeeded at some point of this run).
EnvironmentCreated == env # "absent"

\* C2 (as stated): every completed run, whichever step failed, has invoked
\* the destroy step exactly once.
C2_DestroyOnceInEveryRun == Done => Len(destroyed) = 1

\* C2 (amended): a completed run has invoked the destroy step exactly once
\* when its environment was created, whichever later step failed, and not at
\* all when parsing, the issue fetch, the port allocation or the creation
\* failed.
C2_DestroyOnceIffCreated ==
    /\ Done => Len(destroyed) = (IF EnvironmentCreated THEN 1 ELSE 0)
    /\ calls.create = 0 => destroyed = << >>

\* A run whose environment creation failed completes without any destroy.
C2_Witness ==
    /\ Done
    /\ calls.create = 1
    /\ ~EnvironmentCreated
    /\ destroyed = << >>

\* runTask has been called and has neither returned nor raised.
AgentStepPending == pc \in { "runTask", "sessionCreate", "race" }

\* Main-flow operations other than destroyContainer's own stop and rm.
OtherOps == DOMAIN calls \ { "stop", "rm" }

\* C3: destroy starts only after the agent step has resolved, and once
\* destroyContainer has begun the main flow of run() performs nothing but
\* destroy's own steps until it completes.
C3_DestroyLast ==
    /\ [](destroyed # << >> =>
            /\ ~AgentStepPending
            /\ calls.sessionCreate > 0 =>
                 agentResult # NoResult \/ result.kind = "raised")
    /\ [][destroyed # << >> =>
            /\ \A op \in OtherOps : calls'[op] = calls[op]
            /\ pc' \in { "destroyRm", "done" }
            /\ destroyed' = destroyed]_vars

\* A run that went through the agent step and whose destroy ran to its end.
C3_Witness ==
    /\ Done
    /\ agentResult # NoResult
    /\ destroyed = << container >>
    /\ calls.rm = 1

\* C4: no session is created and no prompt submitted unless waitForHealthy
\* has returned normally; a run whose health wait hit the deadline ends with
\* the timeout error, no session ever created, and its environment destroyed.
C4_HealthBeforeAgent ==
    /\ (calls.sessionCreate > 0 \/ calls.prompt > 0 \/ session # NoSession)
          => healthy
    /\ (Done /\ container # NoContainer /\ ~healthy) =>
          /\ result.kind = "raised"
          /\ result.error.text = "Timed out waiting for opencode server"
          /\ calls.sessionCreate = 0
          /\ session = NoSession
          /\ destroyed = << container >>

\* A run that was never healthy, completed and had its environment removed.
C4_Witness ==
    /\ Done
    /\ container # NoContainer
    /\ ~healthy
    /\ calls.sessionCreate = 0
    /\ env = "removed"

\* C5 (as stated): the monitor is started before the session is created, and
\* its abort is issued after the agent step has ended and before the
\* environment is destroyed, also when session creation raises.
C5_MonitorStoppedBeforeDestroy ==
    /\ calls.sessionCreate > 0 => calls.monitor > 0
    /\ mon.aborted => ~AgentStepPending
    /\ (calls.monitor > 0 /\ destroyed # << >>) => mon.aborted

\* The outcome runTask reports for a timeout: no success, and the error
\* "Task did not complete within <N> minutes".
IsTimeoutOutcome(r) ==
    /\ ~r.success
    /\ r.error.text = "Task did not complete within"
    /\ r.error.detail = "minutes"

\* C6 (as stated): when the timer elapses before the prompt call settles,
\* runTask returns the timeout outcome for N = the configured minutes, and
\* leaves the environment alone.
C6_TimerGivesTimeoutOutcome ==
    race.by = "timer" =>
        /\ agentResult # NoResult
        /\ IsTimeoutOutcome(agentResult)
        /\ agentResult.error.n = options.timeoutMinutes
        /\ pc = "afterRunTask" => destroyed = << >> /\ env = "running"

\* C7 (as stated): the timeout outcome is reported iff the timer elapsed
\* before the prompt call resolved, and a prompt call that resolved, with
\* any value, is reported as success.
C7_TimeoutIffTimerFirst ==
    race.by \in { "resolved", "rejected", "timer" } =>
        /\ IsTimeoutOutcome(agentResult) <=> race.by = "timer"
        /\ race.by = "resolved" => agentResult.success

\* C8: when the prompt call rejects after the session was created, runTask
\* returns, and does not raise, an outcome with success false, the created
\* session's id and the rejection's message as its error.
C8_RejectionReturned ==
    race.by = "rejected" =>
        /\ agentResult # NoResult
        /\ agentResult.success = FALSE
        /\ session \in SessionIds
        /\ agentResult.sessionId = session
        /\ agentResult.error.text = race.err.message
        /\ result.kind # "raised"

\* runTask has just returned after a rejection with a thrown non-Error value.
C8_Witness ==
    /\ pc = "afterRunTask"
    /\ race.by = "rejected"
    /\ ~race.err.isError
    /\ agentResult.error.text = "boom"

\* The four failures that abort the run, as they show in the state of a
\* run that has left its try block.
LeftTry == pc \in { "finally", "destroyRm", "done" }
InvalidReference == ~parseTaskRef(options.taskRef).ok
CreationFailed == calls.create = 1 /\ container = NoContainer
HealthTimedOut == LeftTry /\ container # NoContainer /\ ~healthy
SessionCreationFailed == LeftTry /\ calls.sessionCreate = 1 /\ session = NoSession

WellFormed(v) ==
    IF v.success
    THEN "prUrl" \in DOMAIN v /\ "error" \notin DOMAIN v
    ELSE "error" \in DOMAIN v /\ "prUrl" \notin DOMAIN v

----------------------------------------------------------------------------
(* The health wait: container.ts waitForHealthy *)

HealthWaiting == pc \in { "health", "healthSleep" }
NotReadyAnswers == (PollAnswers \ { "healthy" }) \cup { "polltimeout" }
HealthTimeoutError ==
    Raised(Err("Timed out waiting for opencode server", HealthTimeoutMs,
               container.id))

\* C11: waitForHealthy returns successfully iff a poll issued before the
\* deadline receives a 2xx response whose body has healthy = true, and on
\* that poll it returns at once, with no further sleep or poll.
C11_ReturnsIffReadyPoll ==
    /\ [](healthy <=> lastAnswer = "healthy")
    /\ [](lastAnswer = "healthy" => ~HealthWaiting)
    /\ []((LeftTry /\ container # NoContainer /\ lastAnswer # "healthy")
            => (result = HealthTimeoutError /\ calls.monitor = 0))
    /\ [][(pc = "health" /\ lastAnswer' = "healthy")
            => (elapsed < HealthTimeoutMs /\ healthy' /\ pc' = "monitor"
                /\ result' = Pending)]_vars

C11_Witness ==
    /\ pc = "monitor"
    /\ healthy
    /\ lastAnswer = "healthy"

\* C12: when every poll before the deadline is not ready, waitForHealthy
\* fails with the timeout error, and no poll is issued once the deadline
\* has elapsed.
C12_TimeoutAndNoLatePoll ==
    /\ [][(pc = "health" /\ pc' # "health")
            => IF elapsed < HealthTimeoutMs
               THEN pc' \in { "healthSleep", "monitor" }
               ELSE /\ pc' = "finally"
                    /\ result' = HealthTimeoutError
                    /\ lastAnswer' = lastAnswer
                    /\ lastAnswer \in NotReadyAnswers]_vars
    /\ [](HealthTimedOut => (result = HealthTimeoutError
                             /\ lastAnswer \in NotReadyAnswers))

C12_Witness ==
    /\ pc = "finally"
    /\ container # NoContainer
    /\ result = HealthTimeoutError
    /\ lastAnswer \in NotReadyAnswers

\* C13: a network error, a per-poll timeout, a non-2xx response, a
\* malformed body and a body with healthy = false are all swallowed: the
\* wait sleeps the fixed interval and polls again, and the only error it
\* raises is the deadline timeout.
C13_NotReadyIsSwallowed ==
    /\ [][(pc = "health" /\ elapsed < HealthTimeoutMs
           /\ lastAnswer' \in NotReadyAnswers)
            => (pc' \in { "health", "healthSleep" }
                /\ result' = result /\ warns' = warns)]_vars
    /\ [][pc = "healthSleep"
            => (result' = result
                /\ (pc' # pc => (pc' = "health"
                                 /\ elapsed' = elapsed + pollIntervalMs)))]_vars
    /\ [](HealthWaiting => result = Pending)
    /\ []((result.kind = "raised" /\ container # NoContainer /\ ~healthy)
            => result = HealthTimeoutError)

C13_Witness ==
    /\ pc = "health"
    /\ elapsed > pollIntervalMs
    /\ lastAnswer = "neterror"
    /\ result = Pending

----------------------------------------------------------------------------
(* Teardown: container.ts destroyContainer, as called from run()'s finally *)

\* destroyContainer rejected: the only source of this warning is the .catch
\* that run() attaches to the destroyContainer call.
DestroyRejected == "Failed to destroy container" \in warns
DestroyCalled == destroyed # << >>

\* C14 (as stated): destroyContainer never raises to its caller, whatever
\* the stop and the force-remove commands do (success, non-zero exit,
\* failure to run), and the force-remove is attempted even when the stop
\* failed.
C14_DestroyNeverRaises ==
    /\ ~DestroyRejected
    /\ (Done /\ DestroyCalled) => calls.rm = 1

\* A caller that holds the handle calls destroyContainer a second time,
\* after the first call has removed the container.  The log is read from
\* this call on.
DestroyAgain ==
    /\ pc = "done"
    /\ Len(destroyed) = 1
    /\ env = "removed"
    /\ pc' = "finally"
    /\ warns' = {}
    /\ UNCHANGED << options, ref, issue, hostPort, container, env, elapsed,
                    healthy, session, timer, agentResult, prUrl, mon, calls,
                    result, destroyed, race, lastAnswer, failedComments, createExit, portOwner, logs, branches, fleet, cli >>

NextDestroyTwice == Next \/ DestroyAgain
SpecDestroyTwice == Init /\ [][NextDestroyTwice]_vars

SecondDestroyDone == Done /\ Len(destroyed) = 2
DestroyWarnings == { "Failed to stop container", "Failed to remove container" }

\* C15 (as stated): a second destroyContainer on the same handle logs a
\* warning and never throws, and leaves the environment as the first call
\* left it, removed.
C15_SecondDestroyOnlyWarns ==
    SecondDestroyDone
        => /\ warns \cap DestroyWarnings # {}
           /\ ~DestroyRejected
           /\ env = "removed"

----------------------------------------------------------------------------
(* Status comments: run.ts, the three commentOnIssue(...).catch(...) calls *)

CommentSteps == { "commentStart", "commentFailure", "commentSuccess" }

\* C17: a status comment that fails to post is swallowed: the comment step
\* goes on to the same next step with the same result as a comment that
\* posts, it raises nothing out of run(), and the steps after it (the health
\* wait, the return, the teardown) still happen.
C17_CommentFailureSwallowed ==
    /\ [][(pc \in CommentSteps /\ pc' # pc)
            => CASE pc = "commentStart" ->
                        pc' = "health" /\ result' = result
                 [] pc = "commentFailure" ->
                        pc' = "finally" /\ result' = AgentFailure
                 [] pc = "commentSuccess" ->
                        pc' = "finally" /\ result' = Success(prUrl)]_vars
    /\ []((LeftTry /\ "failure" \in failedComments) => result = AgentFailure)
    /\ []((LeftTry /\ "success" \in failedComments) => result = Success(prUrl))
    /\ []((Done /\ failedComments # {}) => destroyed = << container >>)
    /\ []((result.kind = "raised" /\ failedComments # {})
            => result.error.text # "gh issue comment failed")

C17_Witness ==
    /\ Done
    /\ failedComments = { "start", "success" }
    /\ result = Success(prUrl)
    /\ destroyed = << container >>

----------------------------------------------------------------------------
(* What run() reports against what the teardown does *)

\* C16: what run() reports is settled when the try block is left; no
\* outcome of podman stop or podman rm (success, non-zero exit, failure to
\* run) changes it, so runs that differ only in those outcomes return the
\* same result or raise the same error.
C16_DestroyKeepsOutcome ==
    /\ [][LeftTry => result' = result]_vars
    /\ [](LeftTry => result.kind \in { "returned", "raised" })
    /\ [](pc \in { "finally", "destroyRm" }
            => ENABLED (FinallyNoContainer \/ DestroyStop \/ DestroyRm))

C16_Witness ==
    /\ Done
    /\ DestroyRejected
    /\ result = Success(prUrl)

----------------------------------------------------------------------------
(* Publishing the branch: run.ts step 7, pushBranchFromContainer *)

PushError ==
    Returned([success |-> FALSE,
              error |-> Err("Failed to push branch", 0, "stderr")])
PushSpawnError == Raised(Err("spawn failed", 0, "podman"))
AgentSucceeded == agentResult # NoResult /\ agentResult.success
AgentFailed == agentResult # NoResult /\ ~agentResult.success

----------------------------------------------------------------------------
(* The event monitor against the task: agent.ts monitorEvents, run.ts run *)

\* The steps of the background monitor and the steps of run() itself.
MonitorStep ==
    MonSubscribed \/ MonSubscribeRejects \/ MonEvent \/ MonStreamError
        \/ MonStreamEnd
RunStep ==
    \/ RunParse \/ RunFetchIssue \/ RunFindPort \/ CreateContainer
    \/ CommentStart \/ HealthPoll \/ HealthSleep \/ HealthTimeout
    \/ RunStartMonitor \/ RunTaskCreateSession \/ RunTaskSessionSettled
    \/ PromptResolves \/ PromptRejects \/ TimerFires \/ RunAbortMonitor
    \/ RunGetLogs \/ CommentFailure \/ PushBranch \/ CreatePullRequest
    \/ CommentSuccess \/ FinallyNoContainer \/ DestroyStop \/ DestroyRm

\* Everything run() reads or reports: all of the state but the monitor's
\* own record and the log.
taskVars ==
    << options, pc, ref, issue, hostPort, container, env, elapsed, healthy,
       lastAnswer, createExit, portOwner, logs, session, timer, race,
       agentResult, prUrl, calls, failedComments, destroyed, result,
       branches >>

\* C19: the event monitor cannot affect the task.  Whatever the
\* subscription does (rejects, errors at any moment, delivers events, never
\* ends), a step of the monitor changes nothing run() reads or reports, and
\* run() always has a step of its own to take without waiting for the
\* monitor; so runs that differ only in the monitor take the same steps and
\* return the same result.
C19_MonitorCannotAffectTask ==
    /\ [][MonitorStep => taskVars' = taskVars]_vars
    /\ [][taskVars' # taskVars => RunStep]_vars
    /\ [](pc # "done" => ENABLED RunStep)

C19_Witness ==
    /\ Done
    /\ mon.pc = "stopped"
    /\ "Event monitoring stopped" \in warns
    /\ result = Success(prUrl)

----------------------------------------------------------------------------
(* Task references: github.ts parseTaskRef over all short strings *)

\* The longest reference string tried, and the characters it is made of.
MaxRefLen == 5
RefAlphabet == { "a", "/", "#", "0", "1" }
RefStrings == UNION { [1..n -> RefAlphabet] : n \in 0..MaxRefLen }

\* run() called on any string, up to the end of parseTaskRef.
InitParse ==
    /\ options \in [taskRef : RefStrings, timeoutMinutes : { 30 },
                    quiet : { FALSE }]
    /\ NothingDone
    /\ fleet = NoFleet
    /\ cli = NoCli

NextParse == RunParse
SpecParse == InitParse /\ [][NextParse]_vars

\* A reference owner/repo#N: one "/" and after it one "#", a non-empty owner
\* and repo free of both, and a non-empty run of decimal digits.
Separators == { "/", "#" }
IsName(s) == s # << >> /\ \A i \in 1..Len(s) : s[i] \notin Separators
IsNumber(s) == s # << >> /\ \A i \in 1..Len(s) : s[i] \in Digits
ValidRef(s) ==
    \E p, q \in 1..Len(s) :
        /\ p < q
        /\ s[p] = "/"
        /\ s[q] = "#"
        /\ IsName(SubSeq(s, 1, p - 1))
        /\ IsName(SubSeq(s, p + 1, q - 1))
        /\ IsNumber(SubSeq(s, q + 1, Len(s)))
ExpectedRef(s) ==
    LET p == CHOOSE i \in 1..Len(s) : s[i] = "/"
        q == CHOOSE i \in 1..Len(s) : s[i] = "#"
    IN [owner |-> SubSeq(s, 1, p - 1),
        repo |-> SubSeq(s, p + 1, q - 1),
        issue |-> parseInt(SubSeq(s, q + 1, Len(s)))]
InvalidReferenceError ==
    Raised(Err("Invalid task reference", 0, "Expected format: owner/repo#issue"))

\* C20 (as stated): every valid reference owner/repo#N parses to exactly
\* (owner, repo, N) and gives the branch agent/issue-<N>; every other string
\* fails with the invalid-reference error.
C20_ParsesExactlyValidRefs ==
    pc # "start"
        => IF ValidRef(options.taskRef)
           THEN /\ ref = ExpectedRef(options.taskRef)
                /\ BranchOf(ref) = [text |-> "agent/issue-",
                                    n |-> ExpectedRef(options.taskRef).issue]
                /\ result = Pending
           ELSE /\ result = InvalidReferenceError
                /\ ref = NoRef

----------------------------------------------------------------------------
(* run.ts steps 1-3: what precedes the environment *)

Malformed == ~ValidRef(options.taskRef)

\* C21 (as stated): a malformed reference makes run() raise the
\* invalid-reference error as its first step, before any external action
\* (issue fetch, port, create, comment) and with no destroy; and an
\* environment is created only after both the parse and the issue fetch have
\* succeeded.
C21_MalformedFailsFirst ==
    /\ (Malformed /\ pc # "start")
         => /\ Done
            /\ result = InvalidReferenceError
            /\ calls = NoCalls
            /\ destroyed = << >>
            /\ container = NoContainer
            /\ env = "absent"
    /\ (calls.create > 0 \/ EnvironmentCreated)
         => (ref # NoRef /\ issue # NoIssue /\ calls.fetch = 1)

\* C22 (as stated): every TaskRef that parseTaskRef returns has a non-empty
\* owner and repo with no "/" and no "#" inside, and an issue number above 0.
C22_ReturnedRefWellFormed ==
    ref # NoRef
        => /\ IsName(ref.owner)
           /\ IsName(ref.repo)
           /\ ref.issue > 0

----------------------------------------------------------------------------
(* Creating the environment: container.ts createContainer *)

CreationError == Raised(Err("Failed to create container", 125, "stderr"))

\* C23: createContainer raises "Failed to create container", carrying the
\* captured stderr, iff the create command exits non-zero; when it fails no
\* handle is returned, and when it succeeds the handle carries the caller's
\* hostPort, repo and branch unchanged.
C23_CreateFailsIffNonZero ==
    /\ (createExit = "nonzero") <=> (result = CreationError)
    /\ (createExit \in { "nonzero", "spawnfail" })
         => (container = NoContainer /\ env = "absent"
             /\ result.kind = "raised")
    /\ (createExit = "ok")
         => /\ container # NoContainer
            /\ container.hostPort = hostPort
            /\ container.repo = FullRepoOf(ref)
            /\ container.branch = BranchOf(ref)
            /\ container.id \in ContainerIds
    /\ (createExit = "none") => container = NoContainer

C23_Witness ==
    /\ createExit = "nonzero"
    /\ result = CreationError
    /\ container = NoContainer
    /\ pc = "finally"

----------------------------------------------------------------------------
(* One attempt per run: run.ts run, agent.ts runTask *)

\* C24: nothing is retried.  Within one run the create command, the session
\* creation and the prompt submission are each issued at most once, and the
\* agent outcome, once produced, is never produced again.
C24_NoRetries ==
    /\ [](calls.create <= 1 /\ calls.sessionCreate <= 1 /\ calls.prompt <= 1)
    /\ [](calls.prompt <= calls.sessionCreate
          /\ calls.sessionCreate <= calls.create)
    /\ [][agentResult # NoResult => agentResult' = agentResult]_vars
    /\ [][race.by \in { "resolved", "rejected", "timer" } => race' = race]_vars
    /\ [][createExit # "none" => createExit' = createExit]_vars

C24_Witness ==
    /\ Done
    /\ race.by = "rejected"
    /\ AgentFailed
    /\ calls.create = 1
    /\ calls.sessionCreate = 1
    /\ calls.prompt = 1

----------------------------------------------------------------------------
(* The success path: run.ts steps 7-9 and the finally block *)

RunSucceeded == result.kind = "returned" /\ result.value.success

\* C25: run() returns success only when the agent outcome was success and
\* the branch agent/issue-<N> was pushed from inside the environment while
\* the environment was still there (running, destroy not yet called); and
\* when the success result reaches the caller, destroyContainer has been
\* called on the environment and has finished.
C25_SuccessNeedsPublishAndDestroy ==
    /\ [](RunSucceeded
            => /\ AgentSucceeded
               /\ calls.push = 1
               /\ calls.pr = 1
               /\ result = Success(prUrl)
               /\ container.branch = [text |-> "agent/issue-", n |-> ref.issue])
    /\ [][(pc = "push" /\ pc' # pc)
            => (env = "running" /\ destroyed = << >> /\ calls.stop = 0
                /\ AgentSucceeded)]_vars
    /\ []((Done /\ RunSucceeded)
            => (destroyed = << container >> /\ calls.stop = 1))

C25_Witness ==
    /\ Done
    /\ RunSucceeded
    /\ env = "removed"
    /\ destroyed = << container >>

----------------------------------------------------------------------------
(* The host port among processes: container.ts findAvailablePort *)

\* Another run() invocation or process asks the OS for a port and is given
\* the one this run was given, which nothing has bound at the moment.
OtherBinds ==
    /\ hostPort # NoPort
    /\ portOwner = "free"
    /\ portOwner' = "other"
    /\ UNCHANGED << options, pc, ref, issue, hostPort, container, env, elapsed,
                    healthy, lastAnswer, createExit, session, timer, race,
                    agentResult, prUrl, mon, calls, warns, failedComments,
                    destroyed, result, logs, branches, fleet, cli >>

\* The other process closes its socket.
OtherReleases ==
    /\ portOwner = "other"
    /\ portOwner' = "free"
    /\ UNCHANGED << options, pc, ref, issue, hostPort, container, env, elapsed,
                    healthy, lastAnswer, createExit, session, timer, race,
                    agentResult, prUrl, mon, calls, warns, failedComments,
                    destroyed, result, logs, branches, fleet, cli >>

NextPortRace == Next \/ OtherBinds \/ OtherReleases
SpecPortRace == Init /\ [][NextPortRace]_vars

\* The run has been given its port and has not yet torn its environment
\* down (nor failed to create one).
HoldsPort ==
    /\ hostPort # NoPort
    /\ createExit \in { "none", "ok" }
    /\ destroyed = << >>

\* C26 (as stated): from the moment findAvailablePort returns a port until
\* the run's environment is destroyed, no other run() invocation or process
\* can obtain that port.
C26_PortExclusivelyOwned ==
    HoldsPort => portOwner # "other"

----------------------------------------------------------------------------
(* Progress: what is bound to happen whatever the agent server does *)

\* The steps that need no answer from the agent server: spawned commands
\* terminate, a health poll ends by its answer or its own 2 s abort, sleeps
\* and the setTimeout of the race elapse, and run()'s own code runs on.
BoundToHappen ==
    \/ RunParse \/ RunFetchIssue \/ RunFindPort \/ CreateContainer
    \/ CommentStart \/ HealthPoll \/ HealthSleep \/ HealthTimeout
    \/ RunStartMonitor \/ RunTaskCreateSession \/ TimerFires
    \/ RunAbortMonitor \/ RunGetLogs \/ CommentFailure \/ PushBranch
    \/ CreatePullRequest \/ CommentSuccess \/ FinallyNoContainer
    \/ DestroyStop \/ DestroyRm

\* The run under that assumption alone: the answers to the session request
\* and to the prompt, and the event stream, may never come.
FairSpec == Spec /\ WF_vars(BoundToHappen)

\* C27 (as stated): once the environment is created, destroyContainer is
\* eventually called and run() eventually completes, even if the agent
\* server never answers a health poll, a session request or a prompt.
C27_TeardownEventually ==
    EnvironmentCreated ~> (Done /\ DestroyCalled)

----------------------------------------------------------------------------
(* Cancelling the event monitor: agent.ts monitorEvents *)

MonitorWarning == "Event monitoring stopped"
MonitorError == MonSubscribeRejects \/ MonStreamError

\* C28: once abort() has been called on the monitor's handle no further
\* agent event is logged: the signal is looked at before each received
\* event is logged, and an event received after it ends the loop.
C28_NoEventLoggedAfterAbort ==
    /\ [][mon.aborted => mon'.logged = mon.logged]_vars
    /\ [][(mon.aborted /\ mon'.delivered > mon.delivered)
            => mon'.pc = "stopped"]_vars
    /\ [][mon.aborted => mon'.aborted]_vars

C28_Witness ==
    /\ mon.aborted
    /\ mon.logged > 0
    /\ mon.delivered > mon.logged

\* C29: a subscription or stream error is logged as a warning iff it comes
\* before abort() was called; in both cases the monitor stops and the error
\* stays inside the background task, changing nothing of the run.
C29_ErrorWarnsIffBeforeAbort ==
    /\ [][MonitorError
            => /\ mon'.pc = "stopped"
               /\ taskVars' = taskVars
               /\ IF mon.aborted THEN warns' = warns
                  ELSE warns' = warns \cup { MonitorWarning }]_vars
    /\ [][(MonitorWarning \in warns' /\ MonitorWarning \notin warns)
            => (MonitorError /\ ~mon.aborted)]_vars
    /\ [](MonitorWarning \in warns => mon.pc = "stopped")

C29_Witness ==
    /\ mon.pc = "stopped"
    /\ ~mon.aborted
    /\ MonitorWarning \in warns
    /\ pc = "race"

----------------------------------------------------------------------------
(* Termination of the health wait: container.ts waitForHealthy *)

\* C30: waitForHealthy always ends, by returning or by raising the timeout
\* error, whatever the endpoint does; a poll that gets no response is given
\* up after its own 2 s and the wait goes on to its sleep, so one poll costs
\* at most 2 s of the 300 s budget.
C30_HealthWaitTerminates ==
    /\ HealthWaiting ~> (pc = "monitor" \/ (pc = "finally" /\ HealthTimedOut))
    /\ [][(pc = "health" /\ pc' = "healthSleep")
            => elapsed' <= elapsed + PollTimeoutMs]_vars
    /\ [](HealthWaiting
            => elapsed < HealthTimeoutMs + PollTimeoutMs + pollIntervalMs)

C30_Witness ==
    /\ pc = "finally"
    /\ container # NoContainer
    /\ lastAnswer = "polltimeout"
    /\ result = HealthTimeoutError

----------------------------------------------------------------------------
(* Diagnostics: run.ts lines 109-125, container.ts getContainerLogs *)

LogsFetched == logs # NoLogs

\* C31: the container logs are fetched only on agent failure, never on a
\* run whose agent outcome is success, and always before the environment is
\* destroyed (it is running and destroyContainer has not been called).
C31_LogsOnlyOnFailure ==
    /\ []((LogsFetched \/ calls.logs > 0) => AgentFailed)
    /\ [](AgentSucceeded => (~LogsFetched /\ calls.logs = 0))
    /\ [](calls.logs <= 1)
    /\ [][calls'.logs > calls.logs
            => (AgentFailed /\ env = "running" /\ destroyed = << >>
                /\ calls.stop = 0 /\ calls.rm = 0)]_vars

C31_Witness ==
    /\ Done
    /\ LogsFetched
    /\ AgentFailed
    /\ destroyed = << container >>

\* C32 (as stated): getContainerLogs never propagates a failure: when the
\* logs command exits non-zero or cannot be run it returns a placeholder
\* string instead of raising.
C32_LogsNeverPropagate ==
    LogsFetched
        => /\ logs.ret.kind = "returned"
           /\ (logs.exit \in { "nonzero", "spawnfail" })
                => logs.ret.value = "(logs unavailable)"

----------------------------------------------------------------------------
(* The race of runTask: agent.ts lines 93-102 and timeout() *)

RunTaskReturned == agentResult # NoResult

\* C33 (as stated): when the prompt call settles first the timeout timer is
\* cancelled, so once runTask has returned no timer it started is pending.
C33_TimerReleased ==
    RunTaskReturned => timer # "pending"

----------------------------------------------------------------------------
(* After the publish: run.ts steps 8-9 *)

Published == pc \in { "createPR", "commentSuccess" } \/ calls.pr > 0
HoldsEnvironment == env = "running" /\ destroyed = << >>

\* C34 (as stated): after a successful publish run() takes no further step
\* before it destroys the environment and returns success; it creates no
\* pull request and posts no status comment while it holds the environment.
C34_NothingAfterPublish ==
    /\ calls.pr = 0
    /\ HoldsEnvironment => calls.comment = 0

\* C34 (amended): after a successful publish run() creates the pull request
\* and, unless quiet, posts the success comment, both while it still holds
\* the environment; it takes no other step on the environment or the agent
\* (no exec, no logs, no push, no agent request) before it destroys the
\* environment, and a success result always carries the pull request made.
C34_PullRequestThenDestroy ==
    /\ [][calls'.pr > calls.pr
            => (HoldsEnvironment /\ calls.push = 1 /\ AgentSucceeded)]_vars
    /\ [][(pc = "commentSuccess" /\ pc' # pc)
            => (HoldsEnvironment /\ calls'.comment = calls.comment + 1)]_vars
    /\ [][Published
            => /\ calls'.push = calls.push
               /\ calls'.logs = calls.logs
               /\ calls'.prompt = calls.prompt
               /\ calls'.sessionCreate = calls.sessionCreate
               /\ calls'.create = calls.create]_vars
    /\ [](RunSucceeded => (calls.pr = 1 /\ prUrl # NoUrl
                           /\ result = Success(prUrl)))
    /\ []((RunSucceeded /\ ~options.quiet) => calls.comment = 2)

C34_Witness ==
    /\ Done
    /\ RunSucceeded
    /\ calls.pr = 1
    /\ calls.comment = 2
    /\ destroyed = << container >>

-----------------------------------------------------------------------------
(* The environment's lifecycle as run() drives it *)

\* The lifecycle phase of the run's environment, read off run()'s position:
\* no handle yet, handle held inside the try block before or after the first
\* agent request, the finally block at work, run() over.
Phase ==
    IF container = NoContainer THEN "Requested"
    ELSE IF Done THEN (IF DestroyCalled THEN "Destroyed" ELSE "Abandoned")
    ELSE IF LeftTry THEN "Terminating"
    ELSE IF calls.sessionCreate > 0 THEN "InUse"
    ELSE "Created"

\* What waitForHealthy has established about the environment.
Health ==
    IF container = NoContainer THEN "Unknown"
    ELSE IF healthy THEN "Healthy"
    ELSE IF LeftTry THEN "TimedOut"
    ELSE "Unknown"

PhaseSteps ==
    { << "Requested", "Created" >>, << "Created", "InUse" >>,
      << "Created", "Terminating" >>, << "InUse", "Terminating" >>,
      << "Terminating", "Destroyed" >> }

\* A request to the agent, a push or a log fetch.
UsesEnvironment ==
    \/ calls'.sessionCreate # calls.sessionCreate
    \/ calls'.prompt # calls.prompt
    \/ calls'.push # calls.push
    \/ calls'.logs # calls.logs

\* C35: run() refines the environment state machine Requested -> Created ->
\* (Healthy | TimedOut) -> InUse -> Terminating -> Destroyed: the phase moves
\* only along these steps, health is settled once and only while Created,
\* InUse is entered only from Healthy, a Created environment that never
\* becomes Healthy goes to Terminating as TimedOut and on to Destroyed, the
\* agent and the checkout are used only in InUse, and after Destroyed the run
\* issues no stop, remove, logs, exec or agent request.
C35_LifecycleRefinement ==
    /\ [][Phase' # Phase => << Phase, Phase' >> \in PhaseSteps]_vars
    /\ [][Health' # Health => (Health = "Unknown" /\ Phase = "Created")]_vars
    /\ [][(Phase' = "InUse" /\ Phase # "InUse") => Health = "Healthy"]_vars
    /\ [][(Phase = "Created" /\ Phase' = "Terminating")
            => Health' = "TimedOut"]_vars
    /\ [][UsesEnvironment
            => ((Phase = "InUse" \/ Phase' = "InUse") /\ Health = "Healthy")]_vars
    /\ [][Phase = "Destroyed"
            => (calls' = calls /\ destroyed' = destroyed /\ env' = env)]_vars
    /\ [](Done => Phase \in { "Requested", "Destroyed" })

C35_Witness ==
    /\ Phase = "Destroyed"
    /\ Health = "TimedOut"
    /\ destroyed = << container >>
    /\ calls.sessionCreate = 0

-----------------------------------------------------------------------------
(* The branch name *)

\* The name agent/issue-<N> for the issue number run() parsed.
AgentBranch == [text |-> "agent/issue-", n |-> ref.issue]

\* The steps that have been handed a branch name so far.
BranchUsers == { k \in DOMAIN branches : branches[k] # NoBranch }

\* C36: within one run a single branch name is used everywhere: the branch
\* checked out in the environment, the branch named in the task prompt, the
\* branch pushed and the head of the pull request, once each step has been
\* taken, all equal agent/issue-<N> for the parsed N, and so does the branch
\* kept in the container handle.
C36_OneBranchName ==
    /\ \A k \in BranchUsers : ref # NoRef /\ branches[k] = AgentBranch
    /\ calls.create > 0 <=> "checkout" \in BranchUsers
    /\ calls.prompt > 0 <=> "prompt" \in BranchUsers
    /\ calls.push > 0 <=> "push" \in BranchUsers
    /\ calls.pr > 0 <=> "head" \in BranchUsers
    /\ container # NoContainer => container.branch = AgentBranch

C36_Witness ==
    /\ Done
    /\ BranchUsers = { "checkout", "prompt", "push", "head" }
    /\ branches.head = branches.checkout
    /\ branches.push = branches.prompt
    /\ RunSucceeded

-----------------------------------------------------------------------------
(* container.ts: the container name, and several runs on one engine *)

\* `agent/issue-${ref.issue}` character by character; a number is
\* interpolated in decimal without leading zeros.
DigitChar(d) == CHOOSE c \in Digits : DigitValue(c) = d

RECURSIVE Decimal(_)
Decimal(n) ==
    IF n < 10 THEN << DigitChar(n) >>
    ELSE Decimal(n \div 10) \o << DigitChar(n % 10) >>

BranchString(b) ==
    << "a", "g", "e", "n", "t", "/", "i", "s", "s", "u", "e", "-" >> \o Decimal(b.n)

\* branch.replace(/\//g, "-")
ReplaceSlashes(s) == [i \in 1..Len(s) |-> IF s[i] = "/" THEN "-" ELSE s[i]]

\* Faulty variant: the branch goes into the name as it is.
ContainerName_KeepsSlash(branch) ==
    << "c", "o", "m", "m", "a", "n", "d", "e", "r", "-" >> \o BranchString(branch)

\* `commander-${branch.replace(/\//g, "-")}`
ContainerName(branch) ==
    << "c", "o", "m", "m", "a", "n", "d", "e", "r", "-" >>
        \o ReplaceSlashes(BranchString(branch))

\* The runs started side by side and the task references they are given:
\* two repositories with the same issue number, the same number written
\* with a leading zero, and another number.
RunIds == { 1, 2 }
FleetRefs ==
    { << "a", "/", "b", "#", "7" >>,
      << "c", "/", "d", "#", "7" >>,
      << "a", "/", "b", "#", "0", "7" >>,
      << "a", "/", "b", "#", "1", "2" >> }

\* The names the engine holds: podman refuses `run --name` for a name in use.
NamesInUse == { fleet[i].name : i \in { j \in DOMAIN fleet : fleet[j].state = "running" } }

InitFleet ==
    /\ options \in [taskRef : { << "a", "/", "b", "#", "7" >> },
                    timeoutMinutes : { 30 }, quiet : { TRUE }]
    /\ NothingDone
    /\ fleet \in [RunIds -> [taskRef : FleetRefs, state : { "idle" },
                             name : { << >> }]]
    /\ cli = NoCli

\* Run i reaches createContainer: podman run --detach --name <name> ... exits
\* non-zero when the name is taken, and createContainer throws.
FleetCreate(i) ==
    /\ fleet[i].state = "idle"
    /\ LET parsed == parseTaskRef(fleet[i].taskRef)
           name == ContainerName(BranchOf(parsed))
       IN fleet' = [fleet EXCEPT ![i] =
                       [@ EXCEPT !.name = name,
                                 !.state = IF name \in NamesInUse
                                           THEN "refused" ELSE "running"]]
    /\ UNCHANGED << taskVars, mon, warns, cli >>

\* Run i's finally block: podman stop, podman rm --force.
FleetDestroy(i) ==
    /\ fleet[i].state = "running"
    /\ fleet' = [fleet EXCEPT ![i] = [@ EXCEPT !.state = "gone"]]
    /\ UNCHANGED << taskVars, mon, warns, cli >>

NextFleet == \E i \in RunIds : FleetCreate(i) \/ FleetDestroy(i)
SpecFleet == InitFleet /\ [][NextFleet]_vars

\* commander-agent-issue-<N>
ExpectedLabel(n) ==
    << "c", "o", "m", "m", "a", "n", "d", "e", "r", "-",
       "a", "g", "e", "n", "t", "-", "i", "s", "s", "u", "e", "-" >> \o Decimal(n)

IssueOf(i) == ExpectedRef(fleet[i].taskRef).issue
RepoOf(i) == FullRepoOf(ExpectedRef(fleet[i].taskRef))
LabelOf(i) == ContainerName(BranchOf(parseTaskRef(fleet[i].taskRef)))
Started(i) == fleet[i].state # "idle"

\* C37: the container name is a function of the issue number only: every
\* task reference maps to commander-agent-issue-<N>, so two references with
\* the same N and a different owner or repo map to the same name, and two
\* such environments never exist at the same time.
C37_LabelByIssueNumber ==
    /\ \A i \in DOMAIN fleet :
          /\ LabelOf(i) = ExpectedLabel(IssueOf(i))
          /\ Started(i) => fleet[i].name = ExpectedLabel(IssueOf(i))
    /\ \A i, j \in DOMAIN fleet :
          (i # j /\ IssueOf(i) = IssueOf(j))
              => /\ LabelOf(i) = LabelOf(j)
                 /\ ~(fleet[i].state = "running" /\ fleet[j].state = "running")

C37_Witness ==
    /\ DOMAIN fleet = RunIds
    /\ IssueOf(1) = IssueOf(2)
    /\ RepoOf(1) # RepoOf(2)
    /\ fleet[1].state = "running"
    /\ fleet[2].state = "refused"
    /\ fleet[2].name = fleet[1].name

-----------------------------------------------------------------------------
(* The quiet option *)

\* Where a run stands and what it is about to return once its status
\* comments are left out: a run suspended at a comment is where the quiet run
\* is after the step before it.
QuietPc ==
    CASE pc = "commentStart" -> "health"
      [] pc \in { "commentFailure", "commentSuccess" } -> "finally"
      [] OTHER -> pc
QuietResult ==
    CASE pc = "commentFailure" -> AgentFailure
      [] pc = "commentSuccess" -> Success(prUrl)
      [] OTHER -> result
QuietView ==
    << QuietPc, QuietResult, ref, issue, hostPort, container, env, elapsed,
       healthy, lastAnswer, createExit, portOwner, logs, session, timer, race,
       agentResult, prUrl, mon, [calls EXCEPT !.comment = 0], destroyed,
       branches >>

\* C38: with quiet set, run() posts no comment on any path, and quiet changes
\* nothing else: a comment is posted only when quiet is unset, posting it
\* changes nothing of the run but the comment count (and the log), and each
\* step that is followed by a comment leaves the run, comment aside, where
\* it leaves the quiet run, with the same result.
C38_QuietOnlySkipsComments ==
    /\ [](options.quiet
            => (calls.comment = 0 /\ failedComments = {}
                /\ pc \notin CommentSteps))
    /\ [][(pc' \in CommentSteps /\ pc' # pc) => ~options.quiet]_vars
    /\ [][(pc \in CommentSteps /\ pc' # pc)
            => (QuietView' = QuietView /\ calls'.comment = calls.comment + 1)]_vars
    /\ [][(pc = "create" /\ container' # NoContainer) => QuietPc' = "health"]_vars
    /\ [][(pc = "getLogs" /\ pc' # pc)
            => (QuietPc' = "finally" /\ QuietResult' = AgentFailure')]_vars
    /\ [][(pc = "createPR" /\ prUrl' # NoUrl)
            => (QuietPc' = "finally" /\ QuietResult' = Success(prUrl'))]_vars
    /\ [][options' = options]_vars

C38_Witness ==
    /\ Done
    /\ options.quiet
    /\ RunSucceeded
    /\ calls.pr = 1
    /\ calls.comment = 0
    /\ result = Success(prUrl)

-----------------------------------------------------------------------------
(* cli.ts: parseArgs and main *)

OptTimeout == << "-", "-", "t", "i", "m", "e", "o", "u", "t" >>
OptQuiet == << "-", "-", "q", "u", "i", "e", "t" >>
OptCpu == << "-", "-", "c", "p", "u" >>
OptMemory == << "-", "-", "m", "e", "m", "o", "r", "y" >>
OptVerbose == << "-", "-", "v", "e", "r", "b", "o", "s", "e" >>
OptHelp == << "-", "-", "h", "e", "l", "p" >>
OptH == << "-", "h" >>
CmdRun == << "r", "u", "n" >>

\* The arguments tried on the command line: the command, a valid reference,
\* a word, options with and without a value, an option that does not exist.
ArgInputs ==
    { CmdRun, << "a", "/", "b", "#", "4", "2" >>, << "x" >>, OptTimeout,
      << "5" >>, OptQuiet, OptHelp, OptH, << "-", "-", "b", "o", "g", "u", "s" >>,
      OptCpu }

\* The most arguments on one command line.
MaxArgs == 3
ArgvInputs == UNION { [1..n -> ArgInputs] : n \in 0..MaxArgs }

\* argv[i], which is undefined past the end of the array.
Undefined == << "undefined" >>
ArgAt(argv, i) == IF i <= Len(argv) THEN argv[i] ELSE Undefined

\* parseInt(str, 10): an optional sign, then the longest run of decimal
\* digits; NaN when there is no digit.
NaN == [nan |-> TRUE, v |-> 0]
LeadingDigits(s) ==
    IF \E i \in 1..Len(s) : s[i] \notin Digits
    THEN (CHOOSE i \in 1..Len(s) :
             s[i] \notin Digits /\ \A j \in 1..(i - 1) : s[j] \in Digits) - 1
    ELSE Len(s)
JsParseInt(str) ==
    LET signed == str # << >> /\ str[1] \in { "-", "+" }
        body == IF signed THEN Tail(str) ELSE str
        k == LeadingDigits(body)
        magnitude == parseInt(SubSeq(body, 1, k))
    IN IF k = 0 THEN NaN
       ELSE [nan |-> FALSE,
             v |-> IF signed /\ str[1] = "-" THEN 0 - magnitude ELSE magnitude]

\* const args = { command: "", timeout: 30, quiet: false, cpu: "2.0", ... };
\* an unset command or taskRef is falsy, like the empty string.
DefaultArgs ==
    [command |-> << >>, taskRef |-> << >>, timeout |-> 30, quiet |-> FALSE,
     cpu |-> << "2", ".", "0" >>, memory |-> << "4", "g" >>, verbose |-> FALSE,
     help |-> FALSE]

Parsed(args) == [ok |-> TRUE, args |-> args, error |-> ""]
ArgError(msg) == [ok |-> FALSE, args |-> DefaultArgs, error |-> msg]

\* The while loop of parseArgs from index i on (1-based), the switch on argv[i].
RECURSIVE ParseArgsFrom(_, _, _)
ParseArgsFrom(argv, i, args) ==
    IF i > Len(argv) THEN Parsed(args)
    ELSE LET arg == argv[i] IN
      CASE arg = OptTimeout ->
             LET n == JsParseInt(ArgAt(argv, i + 1)) IN
               IF n.nan THEN ArgError("--timeout requires a numeric value")
               ELSE ParseArgsFrom(argv, i + 2, [args EXCEPT !.timeout = n.v])
        [] arg = OptQuiet ->
             ParseArgsFrom(argv, i + 1, [args EXCEPT !.quiet = TRUE])
        [] arg = OptCpu ->
             ParseArgsFrom(argv, i + 2, [args EXCEPT !.cpu = ArgAt(argv, i + 1)])
        [] arg = OptMemory ->
             ParseArgsFrom(argv, i + 2, [args EXCEPT !.memory = ArgAt(argv, i + 1)])
        [] arg = OptVerbose ->
             ParseArgsFrom(argv, i + 1, [args EXCEPT !.verbose = TRUE])
        [] arg \in { OptHelp, OptH } ->
             ParseArgsFrom(argv, i + 1, [args EXCEPT !.help = TRUE])
        [] OTHER ->
             IF arg # << >> /\ arg[1] = "-" THEN ArgError("Unknown option")
             ELSE IF args.command = << >>
             THEN ParseArgsFrom(argv, i + 1, [args EXCEPT !.command = arg])
             ELSE IF args.taskRef = << >>
             THEN ParseArgsFrom(argv, i + 1, [args EXCEPT !.taskRef = arg])
             ELSE ParseArgsFrom(argv, i + 1, args)

parseArgs(argv) == ParseArgsFrom(argv, 1, DefaultArgs)

\* process.exit(code) after the given lines went to stderr and stdout.
Exited(code, out, err) ==
    [cli EXCEPT !.stage = "exited", !.exitCode = code, !.stdout = out,
                !.stderr = err]

\* The process has started and main() has not run yet; run() is not called.
InitCli ==
    /\ cli \in [stage : { "start" }, argv : ArgvInputs, exitCode : { -1 },
                stdout : { << >> }, stderr : { << >> }]
    /\ options = [taskRef |-> << >>, timeoutMinutes |-> 30, quiet |-> FALSE]
    /\ pc = "main"
    /\ ref = NoRef
    /\ issue = NoIssue
    /\ hostPort = NoPort
    /\ container = NoContainer
    /\ env = "absent"
    /\ elapsed = 0
    /\ healthy = FALSE
    /\ lastAnswer = "none"
    /\ createExit = "none"
    /\ portOwner = "free"
    /\ logs = NoLogs
    /\ session = NoSession
    /\ timer = "unset"
    /\ race = NoRace
    /\ agentResult = NoResult
    /\ prUrl = NoUrl
    /\ mon = MonitorIdle
    /\ calls = NoCalls
    /\ warns = {}
    /\ failedComments = {}
    /\ destroyed = << >>
    /\ branches = NoBranches
    /\ result = Pending
    /\ fleet = NoFleet

\* main() up to `await run(...)`: parseArgs (an error it throws reaches
\* main().catch), the usage exit, the switch on the command.
MainStart ==
    /\ cli.stage = "start"
    /\ pc = "main"
    /\ LET p == parseArgs(cli.argv) IN
         IF ~p.ok
         THEN /\ cli' = Exited(1, << >>, << "Fatal error" >>)
              /\ UNCHANGED << options, pc >>
         ELSE IF p.args.help \/ p.args.command = << >>
         THEN /\ cli' = Exited(IF p.args.help THEN 0 ELSE 1, << >>, << "usage" >>)
              /\ UNCHANGED << options, pc >>
         ELSE IF p.args.command # CmdRun
         THEN /\ cli' = Exited(1, << >>, << "Unknown command", "usage" >>)
              /\ UNCHANGED << options, pc >>
         ELSE IF p.args.taskRef = << >>
         THEN /\ cli' = Exited(1, << >>,
                               << "Error: missing task reference", "usage" >>)
              /\ UNCHANGED << options, pc >>
         ELSE /\ options' = [taskRef |-> p.args.taskRef,
                             timeoutMinutes |-> p.args.timeout,
                             quiet |-> p.args.quiet]
              /\ pc' = "start"
              /\ cli' = [cli EXCEPT !.stage = "running"]
    /\ UNCHANGED << ref, issue, hostPort, container, env, elapsed, healthy,
                    lastAnswer, createExit, portOwner, logs, session, timer,
                    race, agentResult, prUrl, mon, calls, warns, failedComments,
                    destroyed, result, branches, fleet >>

\* Faulty variant: the URL field is printed and 0 returned whatever run() gave.
MainAfterRun_AlwaysZero ==
    /\ cli.stage = "running"
    /\ pc = "done"
    /\ cli' = Exited(0, << prUrl >>, << >>)
    /\ UNCHANGED << taskVars, mon, warns, fleet >>

\* run() has settled: console.log(result.prUrl) and exit 0 on success,
\* log.error and exit 1 on a failure result and, through main().catch, on an
\* error run() raised.
MainAfterRun ==
    /\ cli.stage = "running"
    /\ pc = "done"
    /\ cli' = IF result.kind = "returned"
              THEN IF result.value.success
                   THEN Exited(0, << result.value.prUrl >>, << >>)
                   ELSE Exited(1, << >>, << "Task failed" >>)
              ELSE Exited(1, << >>, << "Fatal error" >>)
    /\ UNCHANGED << taskVars, mon, warns, fleet >>

NextCli == Next \/ MainStart \/ MainAfterRun
SpecCli == InitCli /\ [][NextCli]_vars

\* --help or its short form is among the arguments.
HelpAsked == \E i \in 1..Len(cli.argv) : cli.argv[i] \in { OptHelp, OptH }
ProcessExited == cli.stage = "exited"
RunReturnedSuccess == Done /\ RunSucceeded

\* C39: for an invocation without --help, the process exits with code 0
\* exactly when run() returned success, and only then has it printed the
\* pull-request URL, and nothing else, to stdout; every other ending (failure
\* result, error raised by run(), missing task reference, bad option, unknown
\* command) exits with code 1 with nothing on stdout; nothing is written to
\* stdout before the exit.
C39_ExitCodeMirrorsRun ==
    /\ ~ProcessExited => (cli.stdout = << >> /\ cli.exitCode = -1)
    /\ (ProcessExited /\ ~HelpAsked)
          => /\ cli.exitCode \in { 0, 1 }
             /\ cli.exitCode = 0 <=> RunReturnedSuccess
             /\ cli.stdout = IF RunReturnedSuccess THEN << prUrl >> ELSE << >>
             /\ RunReturnedSuccess => prUrl \in PrUrls

C39_Witness ==
    /\ ProcessExited
    /\ ~HelpAsked
    /\ cli.exitCode = 0
    /\ cli.stdout = << prUrl >>
    /\ RunReturnedSuccess
    /\ cli.argv[Len(cli.argv)] = OptQuiet

====
